---- MODULE Spec2Model ----
(***************************************************************************)
(* A model of src/http/http_server.rs: the server block's context and its  *)
(* directive handlers, HttpServer::new (the build), HttpServer::start      *)
(* (the accept thread), HttpServer::stop, and the per-connection handler   *)
(* that runs on the worker pool.                                           *)
(***************************************************************************)
EXTENDS Integers, Sequences, FiniteSets, TLC

\* ------------------------------------------------------------------ bounds
\* Children of the server block.
MaxChildren == 2
\* Clients that connect to the listener in one run.
MaxConns == 2
\* server_name directives executed on one server block.
MaxNames == 1
\* Accept errors other than WouldBlock that a run counts.
MaxErrs == 2

\* ------------------------------------------------------------- value sets
DefaultListen == "127.0.0.1:8080"
Addrs == {DefaultListen, "0.0.0.0:9090"}
ServerNames == {"a.test"}
\* HttpVersion is defined outside this file; its Default is one of its values.
Versions == {"HTTP/1.1", "HTTP/2"}
\* Paths a request can name; "/zz" is registered by no location block.
ReqPaths == {"/a", "/zz"}

NoCtx == [kind |-> "NoCtx"]
NoServer == [kind |-> "NoServer"]

\* ------------------------------------------------------ reference counts
\* The strong count of one Arc allocation and the Arc values the running
\* function holds. A raw pointer made by into_raw keeps its share without
\* being such a value; from_raw makes a value of that same share.
ArcStep(s, op) ==
    CASE op[1] = "new"       -> [n |-> 1, live |-> {op[2]}]
      [] op[1] = "clone"     -> [n |-> s.n + 1, live |-> s.live \cup {op[2]}]
      [] op[1] = "into_raw"  -> [s EXCEPT !.live = @ \ {op[2]}]
      [] op[1] = "from_raw"  -> [s EXCEPT !.live = @ \cup {op[2]}]
      [] op[1] = "forget"    -> [s EXCEPT !.live = @ \ {op[2]}]
      [] op[1] = "scope_end" -> [n |-> s.n - Cardinality(s.live), live |-> {}]

RECURSIVE ArcTrace(_, _)
\* The count after each operation of `ops`, in order.
ArcTrace(s, ops) ==
    IF ops = <<>> THEN <<>>
    ELSE LET t == ArcStep(s, Head(ops)) IN <<t.n>> \o ArcTrace(t, Tail(ops))

SeqMin(seq) == CHOOSE x \in { seq[i] : i \in DOMAIN seq } :
                  \A y \in { seq[i] : i \in DOMAIN seq } : x <= y
SeqMax(seq) == CHOOSE x \in { seq[i] : i \in DOMAIN seq } :
                  \A y \in { seq[i] : i \in DOMAIN seq } : x >= y

\* What is remembered of an allocation: its count now, the lowest count it
\* has had since it was made, and the highest count of the last function
\* that touched it.
NoArc == [n |-> 0, low |-> 0, peak |-> 0]

ArcNew(ops) ==
    LET tr == ArcTrace([n |-> 0, live |-> {}], ops)
    IN  [n |-> tr[Len(tr)], low |-> SeqMin(tr), peak |-> SeqMax(tr)]

ArcUse(arc, ops) ==
    LET tr == ArcTrace([n |-> arc.n, live |-> {}], ops)
    IN  [n |-> tr[Len(tr)],
         low |-> IF SeqMin(tr) < arc.low THEN SeqMin(tr) ELSE arc.low,
         peak |-> SeqMax(tr)]

\* handle_create_server: Arc::new, a clone turned into the raw pointer the
\* node keeps, and server_ctx dropped when the handler returns.
CreateServerArcOps ==
    << <<"new", "server_ctx">>, <<"clone", "tmp">>, <<"into_raw", "tmp">>,
       <<"scope_end">> >>

\* HttpServer::new with server_arc dropped instead of forgotten.
BuildArcOps_NoForget ==
    << <<"from_raw", "server_arc">>, <<"clone", "server_ctx">>, <<"scope_end">> >>

\* HttpServer::new: Arc::from_raw of the node's pointer, a clone, the first
\* value forgotten, and server_ctx dropped when new returns or unwinds.
BuildArcOps ==
    << <<"from_raw", "server_arc">>, <<"clone", "server_ctx">>,
       <<"forget", "server_arc">>, <<"scope_end">> >>

\* The location arm: Arc::from_raw of the child's pointer, forgotten at the
\* end of the arm.
LocationArcOps ==
    << <<"from_raw", "loc_arc">>, <<"forget", "loc_arc">>, <<"scope_end">> >>

\* A child context as its own handler (outside this file) leaves it: one
\* share, held by the pointer in the child's current_ctx.
LocArc == [n |-> 1, low |-> 1, peak |-> 1]

\* One child node of the server block: block_name (trimmed), block_args,
\* whether current_ctx is Some, and what its context object holds: the
\* (status_code, handler) list of a location context, or what each fallible
\* call on an ssl context's certificate and key will answer; and the
\* reference count of that context object.
Child(name, args, ctx, handlers, material) ==
    [name |-> name, args |-> args, ctx |-> ctx, handlers |-> handlers,
     material |-> material, arc |-> IF ctx THEN LocArc ELSE NoArc]

HandlerLists == { <<>>, << <<200, "h1">> >>, << <<200, "h1">>, <<404, "h2">> >> }

\* The fallible steps of the ssl arm, in the order the code takes them.
Materials == {"ok", "loader_err", "invalid_key", "invalid_cert", "rejected"}

LocationKinds ==
    { Child("location", a, TRUE, h, "none") :
        a \in { <<>>, <<"/a">>, <<"/b">> }, h \in HandlerLists }
    \cup { Child("location", a, FALSE, <<>>, "none") : a \in { <<>>, <<"/a">> } }

SslKinds ==
    { Child("ssl", <<>>, TRUE, <<>>, m) : m \in Materials }
    \cup { Child("ssl", <<>>, FALSE, <<>>, "none") }

OtherKinds == { Child("gzip", <<>>, FALSE, <<>>, "none") }

ChildKinds == LocationKinds \cup SslKinds \cup OtherKinds

Trees == UNION { [1..n -> ChildKinds] : n \in 0..MaxChildren }

\* The trees that decide how a built server runs: no route at all, one
\* location block with a route, and the same behind an ssl block whose
\* certificate and key load.
RouteA == Child("location", <<"/a">>, TRUE, << <<200, "h1">> >>, "none")
SslOk == Child("ssl", <<>>, TRUE, <<>>, "ok")

RunTrees == { <<>>, <<RouteA>>, <<SslOk, RouteA>> }

VARIABLES
    parsed,     \* server_config.children as the parser left them
    children,   \* server_config.children, with each child's context object
    node,       \* the server node: current_ctx, current_block_type_id
    srvCtx,     \* the HttpServerContext behind node.current_ctx
    phase,      \* "config" | "built" | "started" | "aborted"
    buildRes,   \* how HttpServer::new ended: "none" before it is called
    addrBusy,   \* whether another listener held the listen address at bind
    server,     \* the HttpServer value: http_version, processor, ssl
    running,    \* HttpServer.running (Arc<AtomicBool>)
    clients,    \* how many clients connect in this run
    pending,    \* connections waiting in the listener's backlog
    pc,         \* the accept thread's position
    conns,      \* every accepted connection, in accept order
    stopPc,     \* the accept thread's position at the first stop()
    stopAccepted, \* Len(conns) at the first stop(), -1 before it
    rebuilt,    \* what a second HttpServer::new on the same node returned
    acceptErrs  \* accept errors other than WouldBlock so far, counted up
                \* to MaxErrs; -1 in the runs that do not count them

vars == << parsed, children, node, srvCtx, phase, buildRes, addrBusy, server, running,
           clients, pending, pc, conns, stopPc, stopAccepted, rebuilt, acceptErrs >>

cfgVars == << children, node, srvCtx, buildRes, addrBusy, server, rebuilt >>
loopVars == << pending, pc, conns >>
stopVars == << stopPc, stopAccepted >>

\* --------------------------------------------------------------- processor
\* HttpProcessor (core::processor) is outside this file. The route table is
\* the set of (path, status_code, handler) entries add_handler was given.
NewProcessor == {}

AddHandler(proc, path, code, handler) == proc \cup { <<path, code, handler>> }

IsEmpty(proc) == proc = {}

\* (path, status_code) pairs the table holds a handler for.
Pairs(proc) == { <<e[1], e[2]>> : e \in proc }

\* process(request): the answers the table allows for a request of `path`.
ProcessResults(proc, path) ==
    LET hs == { e[3] : e \in { x \in proc : x[1] = path } }
    IN  IF hs = {} THEN { [ok |-> FALSE, bytes |-> <<>>] }
        ELSE { [ok |-> TRUE, bytes |-> <<"response", h>>] : h \in hs }

Create404Response(version) == <<"404 Not Found", version>>

\* ------------------------------------------------------ HttpServerContext
NewServerContext(version) ==
    [kind |-> "ctx", listen |-> DefaultListen, server_names |-> <<>>,
     http_version |-> version, processor |-> NewProcessor,
     arc |-> ArcNew(CreateServerArcOps)]

\* set_listen that also starts the list of names afresh.
set_listen_ResetNames(ctx, addr) ==
    [ctx EXCEPT !.listen = addr, !.server_names = <<>>]

set_listen(ctx, addr) == [ctx EXCEPT !.listen = addr]

add_server_name(ctx, name) ==
    [ctx EXCEPT !.server_names = Append(@, name)]

\* ---------------------------------------------------------- HttpServer::new
\* The state of the loop over server_config.children: the children (with
\* their context objects), the server context's processor, ssl_config, and
\* the panic that ended the loop ("none" while it runs).
BuildAcc(kids, proc, ssl) ==
    [kids |-> kids, proc |-> proc, ssl |-> ssl, panic |-> "none"]

RECURSIVE AddHandlers(_, _, _)
\* for (code, handler) in handlers { proc_lock.add_handler(path, code, handler) }
AddHandlers(proc, path, handlers) ==
    IF handlers = <<>> THEN proc
    ELSE AddHandlers(AddHandler(proc, path, Head(handlers)[1], Head(handlers)[2]),
                     path, Tail(handlers))

\* LocationArm with each child's handlers put into a fresh table.
LocationArm_Overwrite(acc, i) ==
    LET ch == acc.kids[i] IN
    IF ch.args = <<>> THEN [acc EXCEPT !.panic = "NoPath"]
    ELSE IF ch.ctx
         THEN [acc EXCEPT !.proc = AddHandlers(NewProcessor, Head(ch.args), ch.handlers),
                          !.kids[i].handlers = <<>>,
                          !.kids[i].arc = ArcUse(@, LocationArcOps)]
         ELSE acc

\* LocationArm with the path demanded only once a context is found.
LocationArm_CtxFirst(acc, i) ==
    LET ch == acc.kids[i] IN
    IF ~ch.ctx THEN acc
    ELSE IF ch.args = <<>> THEN [acc EXCEPT !.panic = "NoPath"]
    ELSE [acc EXCEPT !.proc = AddHandlers(@, Head(ch.args), ch.handlers),
                     !.kids[i].handlers = <<>>,
                     !.kids[i].arc = ArcUse(@, LocationArcOps)]

\* LocationArm with take_handlers handing out a copy of the list.
LocationArm_KeepHandlers(acc, i) ==
    LET ch == acc.kids[i] IN
    IF ch.args = <<>> THEN [acc EXCEPT !.panic = "NoPath"]
    ELSE IF ch.ctx
         THEN [acc EXCEPT !.proc = AddHandlers(@, Head(ch.args), ch.handlers),
                          !.kids[i].arc = ArcUse(@, LocationArcOps)]
         ELSE acc

\* The "location" arm for child i: the path is taken (and demanded) before
\* the context is looked at; take_handlers leaves the child's list empty.
LocationArm(acc, i) ==
    LET ch == acc.kids[i] IN
    IF ch.args = <<>> THEN [acc EXCEPT !.panic = "NoPath"]
    ELSE IF ch.ctx
         THEN [acc EXCEPT !.proc = AddHandlers(@, Head(ch.args), ch.handlers),
                          !.kids[i].handlers = <<>>,
                          !.kids[i].arc = ArcUse(@, LocationArcOps)]
         ELSE acc

\* The "ssl" arm for child i: only HttpSSL::from_config's Err is handled;
\* every later step is an unwrap or an expect.
SslArm(acc, i) ==
    LET ch == acc.kids[i] IN
    IF ~ch.ctx THEN acc
    ELSE IF ch.material = "loader_err" THEN acc
    ELSE IF ch.material = "ok" THEN [acc EXCEPT !.ssl = "Some"]
    ELSE [acc EXCEPT !.panic = "SslPanic"]

RECURSIVE BuildLoop(_, _)
\* for child in &server_config.children { match child.block_name.trim() ... }
BuildLoop(acc, i) ==
    IF i > Len(acc.kids) \/ acc.panic # "none" THEN acc
    ELSE LET ch == acc.kids[i] IN
         BuildLoop(IF ch.name = "location" THEN LocationArm(acc, i)
                   ELSE IF ch.name = "ssl" THEN SslArm(acc, i)
                   ELSE acc,
                   i + 1)

\* TcpListener::bind(&listen): fails when another listener holds the address.
BindFails(listen, inUse) == listen \in inUse

\* The bind with its error discarded.
BindResult_Ignore(listen, inUse) == "ok"

\* let listener = TcpListener::bind(&listen).unwrap();
BindResult(listen, inUse) ==
    IF BindFails(listen, inUse) THEN "BindError" ELSE "ok"

\* Self { listener, http_version, processor, ssl, running }
NewServer(listen, version, proc, ssl) ==
    [kind |-> "Server", listener |-> listen, http_version |-> version,
     processor |-> proc, ssl |-> ssl]

\* ------------------------------------------------------------------- Init
\* Before handle_create_server: any tree the parser can leave, and at most
\* one client.
Init ==
    /\ children \in Trees
    /\ parsed = children
    /\ clients \in 0..1
    /\ node = [current_ctx |-> "None", block_type |-> "None"]
    /\ srvCtx = NoCtx
    /\ phase = "config"
    /\ buildRes = "none"
    /\ addrBusy = FALSE
    /\ server = NoServer
    /\ running = FALSE
    /\ pending = 0
    /\ pc = "idle"
    /\ conns = <<>>
    /\ stopPc = "none"
    /\ stopAccepted = -1
    /\ rebuilt = NoServer
    /\ acceptErrs = -1

\* ------------------------------------------------------ directive handlers
\* handle_create_server: a fresh HttpServerContext behind current_ctx.
CreateServer ==
    /\ phase = "config"
    /\ node.current_ctx = "None"
    /\ \E v \in Versions : srvCtx' = NewServerContext(v)
    /\ node' = [current_ctx |-> "Some", block_type |-> "HttpServerContext"]
    /\ UNCHANGED << parsed, children, phase, buildRes, addrBusy, server, rebuilt,
                    running, clients, loopVars, stopVars, acceptErrs >>

\* The directive's arguments: none, one address / one name, or that
\* followed by a further argument.
ListenArgs ==
    { <<>> } \cup { <<a>> : a \in Addrs } \cup { <<a, "backlog=16">> : a \in Addrs }
NameArgs ==
    { <<>> } \cup { <<n>> : n \in ServerNames }
             \cup { <<n, "alias.test">> : n \in ServerNames }

\* handle_set_listen: current_cmd_args.first().unwrap() comes first, then the
\* context is looked up and, when present, its listen field is overwritten.
SetListen ==
    /\ phase = "config"
    /\ \E args \in ListenArgs :
         IF args = <<>>
         THEN /\ phase' = "aborted"
              /\ UNCHANGED srvCtx
         ELSE /\ srvCtx' = IF node.current_ctx = "Some"
                           THEN set_listen(srvCtx, Head(args)) ELSE srvCtx
              /\ UNCHANGED phase
    /\ UNCHANGED << parsed, children, node, buildRes, addrBusy, server, rebuilt,
                    running, clients, loopVars, stopVars, acceptErrs >>

\* handle_set_server_name: as handle_set_listen, appending to server_names.
SetServerName ==
    /\ phase = "config"
    /\ \E args \in NameArgs :
         IF args = <<>>
         THEN /\ phase' = "aborted"
              /\ UNCHANGED srvCtx
         ELSE /\ node.current_ctx = "Some" => Len(srvCtx.server_names) < MaxNames
              /\ srvCtx' = IF node.current_ctx = "Some"
                           THEN add_server_name(srvCtx, Head(args)) ELSE srvCtx
              /\ UNCHANGED phase
    /\ UNCHANGED << parsed, children, node, buildRes, addrBusy, server, rebuilt,
                    running, clients, loopVars, stopVars, acceptErrs >>

\* ---------------------------------------------------------------- the build
\* HttpServer::new(server_config): the context lookup, the loop over the
\* children, the processor taken out of the context, the bind, the Server.
Build ==
    /\ phase = "config"
    /\ IF node.current_ctx = "None"
       THEN /\ buildRes' = "NoCtx"
            /\ phase' = "aborted"
            /\ UNCHANGED << children, srvCtx, addrBusy, server, running >>
       ELSE LET acc == BuildLoop(BuildAcc(children, srvCtx.processor, "None"), 1)
            IN  /\ children' = acc.kids
                /\ IF acc.panic # "none"
                   THEN /\ srvCtx' = [srvCtx EXCEPT !.processor = acc.proc,
                                                     !.arc = ArcUse(@, BuildArcOps)]
                        /\ buildRes' = acc.panic
                        /\ phase' = "aborted"
                        /\ UNCHANGED << addrBusy, server, running >>
                   ELSE \E inUse \in SUBSET Addrs :
                        /\ srvCtx' = [srvCtx EXCEPT !.processor = NewProcessor,
                                                     !.arc = ArcUse(@, BuildArcOps)]
                        /\ addrBusy' = BindFails(srvCtx.listen, inUse)
                        /\ buildRes' = BindResult(srvCtx.listen, inUse)
                        /\ IF buildRes' = "ok"
                           THEN /\ server' = NewServer(srvCtx.listen,
                                                       srvCtx.http_version,
                                                       acc.proc, acc.ssl)
                                /\ running' = TRUE
                                /\ phase' = "built"
                           ELSE /\ phase' = "aborted"
                                /\ UNCHANGED << server, running >>
    /\ UNCHANGED << parsed, node, rebuilt, clients, loopVars, stopVars, acceptErrs >>

\* HttpServer::new called once more on the same node, after a first call
\* that returned a Server or panicked under a caller that outlived the
\* panic: the same steps on what the first call left. The first Server's
\* listener, if there is one, holds the address unless that Server has been
\* dropped.
Rebuild ==
    /\ phase \in {"built", "aborted"}
    /\ buildRes # "none"
    /\ rebuilt = NoServer
    /\ IF node.current_ctx = "None"
       THEN /\ rebuilt' = [kind |-> "NoCtx"]
            /\ UNCHANGED << children, srvCtx >>
       ELSE LET acc == BuildLoop(BuildAcc(children, srvCtx.processor, "None"), 1)
            IN  /\ children' = acc.kids
                /\ IF acc.panic # "none"
                   THEN /\ srvCtx' = [srvCtx EXCEPT !.processor = acc.proc,
                                                     !.arc = ArcUse(@, BuildArcOps)]
                        /\ rebuilt' = [kind |-> acc.panic]
                   ELSE \E dropped \in BOOLEAN, inUse \in SUBSET Addrs :
                        LET held == IF dropped \/ server = NoServer THEN inUse
                                    ELSE inUse \cup {server.listener}
                        IN  /\ srvCtx' = [srvCtx EXCEPT !.processor = NewProcessor,
                                                         !.arc = ArcUse(@, BuildArcOps)]
                            /\ rebuilt' =
                                 IF BindResult(srvCtx.listen, held) = "ok"
                                 THEN NewServer(srvCtx.listen, srvCtx.http_version,
                                                acc.proc, acc.ssl)
                                 ELSE [kind |-> "BindError"]
    /\ UNCHANGED << parsed, node, phase, buildRes, addrBusy, server, running,
                    clients, loopVars, stopVars, acceptErrs >>

\* -------------------------------------------------------- start and stop
\* start(self): the listener, processor, version, ssl and flag move into the
\* spawned thread.
Start ==
    /\ phase = "built"
    /\ phase' = "started"
    /\ pc' = "spawned"
    /\ UNCHANGED << parsed, cfgVars, running, clients, pending, conns, stopVars, acceptErrs >>

\* stop() that also throws away the work still queued in the pool.
Stop_DropQueued ==
    /\ phase \in {"built", "started"}
    /\ running' = FALSE
    /\ conns' = [c \in 1..Len(conns) |->
                   IF conns[c].st = "Accepted"
                   THEN [conns[c] EXCEPT !.st = "Cancelled"] ELSE conns[c]]
    /\ IF stopAccepted = -1
       THEN /\ stopPc' = pc
            /\ stopAccepted' = Len(conns)
       ELSE UNCHANGED stopVars
    /\ UNCHANGED << parsed, cfgVars, phase, clients, pending, pc, acceptErrs >>

\* stop(&self): self.running.store(false). The flag is an Arc<AtomicBool>
\* the accept thread holds a clone of, so the store falls between any two
\* steps of the loop. The first store is remembered for the properties.
Stop ==
    /\ phase \in {"built", "started"}
    /\ running' = FALSE
    /\ IF stopAccepted = -1
       THEN /\ stopPc' = pc
            /\ stopAccepted' = Len(conns)
       ELSE UNCHANGED stopVars
    /\ UNCHANGED << parsed, cfgVars, phase, clients, loopVars, acceptErrs >>

\* A client connects: the connection waits in the listener's backlog. The
\* listener exists from the bind until the accept thread ends.
ClientConnect ==
    /\ phase \in {"built", "started"}
    /\ pc \notin {"done", "panicked"}
    /\ pending + Len(conns) < clients
    /\ pending' = pending + 1
    /\ UNCHANGED << parsed, cfgVars, phase, running, clients, pc, conns, stopVars, acceptErrs >>

\* ------------------------------------------------------ the accept thread
\* ThreadEntry without the is_empty() check.
ThreadEntry_NoEmptyCheck(nonblockingOk, proc) ==
    IF ~nonblockingOk THEN "panicked" ELSE "check"

\* ThreadEntry with the loop entered at the accept (a do-while loop).
ThreadEntry_AcceptFirst(nonblockingOk, proc) ==
    IF ~nonblockingOk THEN "panicked"
    ELSE IF IsEmpty(proc) THEN "done"
    ELSE "accept"

\* The head of the spawned closure: set_nonblocking(true).expect(..), then
\* the is_empty() check that ends the thread before the loop.
ThreadEntry(nonblockingOk, proc) ==
    IF ~nonblockingOk THEN "panicked"
    ELSE IF IsEmpty(proc) THEN "done"
    ELSE "check"

ThreadStart ==
    /\ pc = "spawned"
    /\ \E ok \in BOOLEAN : pc' = ThreadEntry(ok, server.processor)
    /\ UNCHANGED << parsed, cfgVars, phase, running, clients, pending, conns, stopVars, acceptErrs >>

\* The loop with its flag never read.
LoopGuard_Always(flag) == "accept"

\* while running_flag.load(Ordering::SeqCst)
LoopGuard(flag) == IF flag THEN "accept" ELSE "done"

LoopCheck ==
    /\ pc = "check"
    /\ pc' = LoopGuard(running)
    /\ UNCHANGED << parsed, cfgVars, phase, running, clients, pending, conns, stopVars, acceptErrs >>

\* A connection as process_connection receives it, or as it is dropped
\* before any handler runs on it. `afterErrs` remembers whether MaxErrs
\* accept errors had been counted when it was accepted.
NewConn(st, how) ==
    [st |-> st, how |-> how, req |-> "none", res |-> "none", out |-> <<>>,
     written |-> <<>>, reads |-> 0, procs |-> 0, writes |-> 0, afterErrs |-> FALSE]

\* process_connection: THREAD_POOL.lock(), then pool.spawn, whose result is
\* discarded. The pool is outside this file; it takes the work or does not.
PoolOutcomes == {"queued", "lock_err", "spawn_err"}

process_connection(outcome) ==
    IF outcome = "queued" THEN NewConn("Accepted", "none")
    ELSE NewConn("Closed", outcome)

\* An accept that waits until the connections before it are closed.
AcceptOk_WaitsForHandlers ==
    /\ pc = "accept"
    /\ pending > 0
    /\ \A c \in 1..Len(conns) : conns[c].st = "Closed"
    /\ pending' = pending - 1
    /\ \E peerOk \in BOOLEAN, d \in PoolOutcomes :
         IF peerOk
         THEN /\ conns' = Append(conns, [process_connection(d) EXCEPT
                                              !.afterErrs = (acceptErrs = MaxErrs)])
              /\ pc' = "check"
         ELSE /\ conns' = Append(conns, [NewConn("Closed", "peer_addr") EXCEPT
                                              !.afterErrs = (acceptErrs = MaxErrs)])
              /\ pc' = "panicked"
    /\ UNCHANGED << parsed, cfgVars, phase, running, clients, stopVars, acceptErrs >>

\* An accept that goes on to the next connection without reading the flag.
AcceptOk_Drain ==
    /\ pc = "accept"
    /\ pending > 0
    /\ pending' = pending - 1
    /\ \E peerOk \in BOOLEAN, d \in PoolOutcomes :
         IF peerOk
         THEN /\ conns' = Append(conns, [process_connection(d) EXCEPT
                                              !.afterErrs = (acceptErrs = MaxErrs)])
              /\ pc' = "accept"
         ELSE /\ conns' = Append(conns, [NewConn("Closed", "peer_addr") EXCEPT
                                              !.afterErrs = (acceptErrs = MaxErrs)])
              /\ pc' = "panicked"
    /\ UNCHANGED << parsed, cfgVars, phase, running, clients, stopVars, acceptErrs >>

\* One listener.incoming().next(): a stream (then peer_addr().unwrap() and
\* process_connection), WouldBlock, or another error. incoming() never
\* yields None.
AcceptOk ==
    /\ pc = "accept"
    /\ pending > 0
    /\ pending' = pending - 1
    /\ \E peerOk \in BOOLEAN, d \in PoolOutcomes :
         IF peerOk
         THEN /\ conns' = Append(conns, [process_connection(d) EXCEPT
                                              !.afterErrs = (acceptErrs = MaxErrs)])
              /\ pc' = "check"
         ELSE /\ conns' = Append(conns, [NewConn("Closed", "peer_addr") EXCEPT
                                              !.afterErrs = (acceptErrs = MaxErrs)])
              /\ pc' = "panicked"
    /\ UNCHANGED << parsed, cfgVars, phase, running, clients, stopVars, acceptErrs >>

AcceptWouldBlock ==
    /\ pc = "accept"
    /\ pending = 0
    /\ pc' = "sleep"
    /\ UNCHANGED << parsed, cfgVars, phase, running, clients, pending, conns, stopVars, acceptErrs >>

\* The count of accept errors, where the run keeps one.
CountErr(n) == IF n = -1 \/ n >= MaxErrs THEN n ELSE n + 1

\* An accept error that ends the loop.
AcceptError_Fatal ==
    /\ pc = "accept"
    /\ pc' = "done"
    /\ acceptErrs' = CountErr(acceptErrs)
    /\ UNCHANGED << parsed, cfgVars, phase, running, clients, pending, conns, stopVars >>

\* Some(Err(e)) => eprintln!(..): the match ends and the loop goes round.
AcceptError ==
    /\ pc = "accept"
    /\ pc' = "check"
    /\ acceptErrs' = CountErr(acceptErrs)
    /\ UNCHANGED << parsed, cfgVars, phase, running, clients, pending, conns, stopVars >>

\* The sleep followed by another accept, the flag not read.
Wake_NoRecheck ==
    /\ pc = "sleep"
    /\ pc' = "accept"
    /\ UNCHANGED << parsed, cfgVars, phase, running, clients, pending, conns, stopVars, acceptErrs >>

\* thread::sleep(Duration::from_millis(10)); continue
Wake ==
    /\ pc = "sleep"
    /\ pc' = "check"
    /\ UNCHANGED << parsed, cfgVars, phase, running, clients, pending, conns, stopVars, acceptErrs >>

AcceptorStep ==
    ThreadStart \/ LoopCheck \/ AcceptOk \/ AcceptWouldBlock \/ AcceptError \/ Wake

\* ------------------------------------------- the handler, on a pool worker
Close(conn, how) == [conn EXCEPT !.st = "Closed", !.how = how]

\* The closure given to the pool: process_tls_connection when ssl_config is
\* Some (ServerConnection::new(..)?), process_plain_connection otherwise.
PoolTask(conn, ssl, sessionOk) ==
    IF ssl = "Some"
    THEN IF sessionOk THEN [conn EXCEPT !.st = "TlsHandshake"]
         ELSE Close(conn, "tls_err")
    ELSE [conn EXCEPT !.st = "Reading"]

\* tls_stream.flush()?, which drives the handshake, then handle_connection.
TlsFlush(conn, handshakeOk) ==
    IF handshakeOk THEN [conn EXCEPT !.st = "Reading"]
    ELSE Close(conn, "tls_err")

\* What stream.read(&mut buffer) answers: an error, zero bytes, or a request.
ReadResults == {"err", "zero"} \cup ReqPaths

\* let n = stream.read(&mut buffer)?; if n == 0 { return Ok(()); }
ReadStep(conn, r) ==
    LET c1 == [conn EXCEPT !.reads = @ + 1] IN
    IF r = "err" THEN Close(c1, "read_err")
    ELSE IF r = "zero" THEN Close(c1, "clean")
    ELSE [c1 EXCEPT !.st = "Dispatched", !.req = r]

\* The fallback built for a fixed version instead of the server's.
ResponseBytes_FixedVersion(res, version) ==
    IF res.ok THEN res.bytes ELSE Create404Response("HTTP/1.1")

\* match processor.process(request_bytes) { Ok(resp) => resp,
\*     Err(_) => HttpProcessor::create_404_response(http_version).as_bytes() }
ResponseBytes(res, version) ==
    IF res.ok THEN res.bytes ELSE Create404Response(version)

ProcessStep(conn, res, version) ==
    [conn EXCEPT !.st = "Responding", !.res = res, !.procs = @ + 1,
                 !.out = ResponseBytes(res, version)]

\* What stream.write_all(..)? and stream.flush()? answer.
WriteResults == {"ok", "write_err", "flush_err"}

\* A handler that reads the next request after a response (keep-alive).
WriteStep_KeepAlive(conn, w, sent) ==
    LET c1 == [conn EXCEPT !.writes = @ + 1] IN
    IF w = "write_err" THEN [c1 EXCEPT !.st = "Closed", !.how = w,
                                       !.written = SubSeq(conn.out, 1, sent)]
    ELSE IF w = "flush_err" THEN [c1 EXCEPT !.st = "Closed", !.how = w,
                                            !.written = conn.out]
    ELSE [c1 EXCEPT !.st = "Reading", !.written = conn.out]

\* A failed write_all has sent only part of the response.
WriteStep(conn, w, sent) ==
    LET c1 == [conn EXCEPT !.writes = @ + 1] IN
    IF w = "write_err" THEN Close([c1 EXCEPT !.written = SubSeq(conn.out, 1, sent)], w)
    ELSE IF w = "flush_err" THEN Close([c1 EXCEPT !.written = conn.out], w)
    ELSE Close([c1 EXCEPT !.written = conn.out], "responded")

PoolRun(c) ==
    /\ conns[c].st = "Accepted"
    /\ \E ok \in BOOLEAN :
         conns' = [conns EXCEPT ![c] = PoolTask(@, server.ssl, ok)]
    /\ UNCHANGED << parsed, cfgVars, phase, running, clients, pending, pc, stopVars, acceptErrs >>

Handshake(c) ==
    /\ conns[c].st = "TlsHandshake"
    /\ \E ok \in BOOLEAN : conns' = [conns EXCEPT ![c] = TlsFlush(@, ok)]
    /\ UNCHANGED << parsed, cfgVars, phase, running, clients, pending, pc, stopVars, acceptErrs >>

\* A read whose error is unwrapped on the accept thread instead of returned.
Read_Unwrap(c) ==
    /\ conns[c].st = "Reading"
    /\ \E r \in ReadResults :
         /\ conns' = [conns EXCEPT ![c] = ReadStep(@, r)]
         /\ pc' = IF r = "err" THEN "panicked" ELSE pc
    /\ UNCHANGED << parsed, cfgVars, phase, running, clients, pending, stopVars, acceptErrs >>

Read(c) ==
    /\ conns[c].st = "Reading"
    /\ \E r \in ReadResults : conns' = [conns EXCEPT ![c] = ReadStep(@, r)]
    /\ UNCHANGED << parsed, cfgVars, phase, running, clients, pending, pc, stopVars, acceptErrs >>

\* process() that takes the matched handler out of the route table.
Process_ConsumeRoute(c) ==
    /\ conns[c].st = "Dispatched"
    /\ \E res \in ProcessResults(server.processor, conns[c].req) :
         conns' = [conns EXCEPT ![c] = ProcessStep(@, res, server.http_version)]
    /\ server' = [server EXCEPT !.processor =
                     { e \in @ : e[1] # conns[c].req }]
    /\ UNCHANGED << parsed, children, node, srvCtx, buildRes, addrBusy, rebuilt,
                    phase, running, clients, pending, pc, stopVars, acceptErrs >>

Process(c) ==
    /\ conns[c].st = "Dispatched"
    /\ \E res \in ProcessResults(server.processor, conns[c].req) :
         conns' = [conns EXCEPT ![c] = ProcessStep(@, res, server.http_version)]
    /\ UNCHANGED << parsed, cfgVars, phase, running, clients, pending, pc, stopVars, acceptErrs >>

Write(c) ==
    /\ conns[c].st = "Responding"
    /\ \E w \in WriteResults, sent \in 0..(Len(conns[c].out) - 1) :
         conns' = [conns EXCEPT ![c] = WriteStep(@, w, sent)]
    /\ UNCHANGED << parsed, cfgVars, phase, running, clients, pending, pc, stopVars, acceptErrs >>

HandlerStep(c) ==
    PoolRun(c) \/ Handshake(c) \/ Read(c) \/ Process(c) \/ Write(c)

\* -------------------------------------------------------------------- Next
Next ==
    \/ CreateServer
    \/ SetListen
    \/ SetServerName
    \/ Build
    \/ Start
    \/ Stop
    \/ ClientConnect
    \/ AcceptorStep
    \/ \E c \in 1..Len(conns) : HandlerStep(c)

Spec == Init /\ [][Next]_vars

\* The state HttpServer::new leaves when it returns a Server for a tree of
\* RunTrees, on the default listen address and with up to MaxConns clients
\* to come: what CreateServer and Build make of that tree. `errs` is 0 where
\* the run counts its accept errors and -1 where it does not.
BuiltFrom(errs) ==
    \E t \in RunTrees, v \in Versions :
        LET acc == BuildLoop(BuildAcc(t, NewProcessor, "None"), 1) IN
        /\ parsed = t
        /\ children = acc.kids
        /\ clients \in 0..MaxConns
        /\ node = [current_ctx |-> "Some", block_type |-> "HttpServerContext"]
        /\ srvCtx = [NewServerContext(v) EXCEPT !.arc = ArcUse(@, BuildArcOps)]
        /\ phase = "built"
        /\ buildRes = "ok"
        /\ addrBusy = FALSE
        /\ server = NewServer(DefaultListen, v, acc.proc, acc.ssl)
        /\ running = TRUE
        /\ pending = 0
        /\ pc = "idle"
        /\ conns = <<>>
        /\ stopPc = "none"
        /\ stopAccepted = -1
        /\ rebuilt = NoServer
        /\ acceptErrs = errs

BuiltInit == BuiltFrom(-1)

\* The operations on a built server.
RunNext ==
    \/ Start
    \/ Stop
    \/ ClientConnect
    \/ AcceptorStep
    \/ \E c \in 1..Len(conns) : HandlerStep(c)

RunSpec == BuiltInit /\ [][RunNext]_vars

\* The built servers of one HTTP version: the version shows only in the
\* bytes of the 404 response, which no progress property reads.
LiveInit == BuiltInit /\ server.http_version = "HTTP/1.1"

\* The accept thread and every pool worker keep taking steps: a queued task
\* is run and a blocking read, write or handshake returns.
FairSpec ==
    /\ LiveInit /\ [][RunNext]_vars
    /\ WF_vars(AcceptorStep)
    /\ \A c \in 1..MaxConns : WF_vars(c <= Len(conns) /\ HandlerStep(c))

\* The built TLS servers of one HTTP version, in runs that count their
\* accept errors.
ErrInit ==
    BuiltFrom(0) /\ server.http_version = "HTTP/1.1" /\ server.ssl = "Some"

ErrSpec == ErrInit /\ [][RunNext]_vars

\* The configuration of one server block and the builds on it, with no
\* client: the directives, HttpServer::new, and HttpServer::new once more.
TreeInit == Init /\ clients = 0

TreeNext ==
    \/ CreateServer
    \/ SetListen
    \/ SetServerName
    \/ Build
    \/ Rebuild

TreeSpec == TreeInit /\ [][TreeNext]_vars

\* ================================================================ properties
Range(seq) == { seq[i] : i \in 1..Len(seq) }

IsLocation(ch) == ch.name = "location"

\* The (path, status_code) pairs the location children with a context hold.
ExpectedPairs(kids) ==
    UNION { { <<Head(kids[i].args), h[1]>> : h \in Range(kids[i].handlers) } :
            i \in { j \in 1..Len(kids) :
                       IsLocation(kids[j]) /\ kids[j].ctx /\ kids[j].args # <<>> } }

Built == buildRes = "ok"

\* C1: once HttpServer::new has returned a Server, its processor holds a
\* handler for every (path, status_code) pair of every location child that
\* has a context, and is not empty when there is such a pair.
C1_RoutesMerged ==
    Built =>
        /\ ExpectedPairs(parsed) \subseteq Pairs(server.processor)
        /\ ExpectedPairs(parsed) # {} => ~IsEmpty(server.processor)

\* Two location children with different paths, three pairs in all, built.
C1_Witness ==
    /\ Built
    /\ Len(parsed) = 2
    /\ IsLocation(parsed[1]) /\ IsLocation(parsed[2])
    /\ parsed[1].args # parsed[2].args
    /\ Cardinality(ExpectedPairs(parsed)) = 3
    /\ Cardinality(Pairs(server.processor)) = 3

NoLocation(kids) == \A i \in 1..Len(kids) : ~IsLocation(kids[i])

\* C2: a server built from a block with no location child has an empty
\* processor, and its accept thread never enters the loop: nothing is ever
\* accepted or dispatched, whatever waits in the backlog.
C2_NoRoutesNoAccept ==
    (Built /\ NoLocation(parsed)) =>
        /\ IsEmpty(server.processor)
        /\ conns = <<>>
        /\ pc \in {"idle", "spawned", "done", "panicked"}

\* The thread of a route-less server has ended at the is_empty() check with
\* a client waiting in the backlog.
C2_Witness ==
    /\ Built /\ NoLocation(parsed) /\ Len(parsed) > 0
    /\ pc = "done" /\ running /\ pending > 0

HasPathlessLocation(kids) ==
    \E i \in 1..Len(kids) : IsLocation(kids[i]) /\ kids[i].args = <<>>

\* C6: a server block with a location child that has no block argument, at
\* any position and with or without a context, never yields a Server: once
\* HttpServer::new has been called it has aborted.
C6_PathlessLocationFatal ==
    HasPathlessLocation(parsed) =>
        /\ ~Built
        /\ server = NoServer
        /\ buildRes # "none" => phase = "aborted"

\* The build aborted on its second child, a location block with neither a
\* path nor a context, after merging the first child's routes.
C6_Witness ==
    /\ buildRes = "NoPath"
    /\ Len(parsed) = 2
    /\ IsLocation(parsed[1]) /\ parsed[1].ctx /\ parsed[1].handlers # <<>>
    /\ IsLocation(parsed[2]) /\ parsed[2].args = <<>> /\ ~parsed[2].ctx
    /\ ~IsEmpty(srvCtx.processor)

\* C7: when another listener holds the listen address at the bind, the
\* build fails with the bind error, there is no Server, and no accept
\* thread is ever started.
C7_BindFailureFatal ==
    addrBusy =>
        /\ buildRes = "BindError"
        /\ server = NoServer
        /\ phase = "aborted"
        /\ pc = "idle" /\ conns = <<>>

\* The bind failed on an address set by a listen directive, for a block
\* whose routes had been merged.
C7_Witness ==
    /\ addrBusy /\ buildRes = "BindError"
    /\ srvCtx.listen # DefaultListen
    /\ ExpectedPairs(parsed) # {}

FailingSsl(ch) == ch.name = "ssl" /\ ch.ctx /\ ch.material # "ok"

\* C8 as claimed: for a block with an ssl child whose certificate and key
\* do not become a TLS configuration (and nothing else in the way: no
\* pathless location, no other ssl child that loads, the address free), the
\* build returns a Server without TLS.
C8_SslFailureNonFatal ==
    ( /\ buildRes \notin {"none", "NoCtx"}
      /\ \E i \in 1..Len(parsed) : FailingSsl(parsed[i])
      /\ \A i \in 1..Len(parsed) :
            parsed[i].name = "ssl" /\ parsed[i].ctx => FailingSsl(parsed[i])
      /\ ~HasPathlessLocation(parsed)
      /\ ~addrBusy )
    => (Built /\ server.ssl = "None")

ConnIds == 1..MaxConns

Exists(c) == c <= Len(conns)

Closed(c) == Exists(c) /\ conns[c].st = "Closed"

\* C3: when the first stop() falls in the loop's would-block sleep, nothing
\* is accepted or dispatched from then on, the thread only wakes, reads the
\* flag and ends, and (the thread being scheduled) it does end.
C3_StopWhileSleeping ==
    /\ [](stopPc = "sleep" =>
            /\ Len(conns) = stopAccepted
            /\ pc \in {"sleep", "check", "done"})
    /\ (stopPc = "sleep") ~> (pc = "done")

\* stop() came during the sleep with a client waiting in the backlog, and
\* the thread has ended without accepting it.
C3_Witness ==
    /\ stopPc = "sleep" /\ pc = "done" /\ ~running
    /\ pending > 0 /\ Len(conns) = stopAccepted

C5_ResponseOr404 ==
    \A c \in 1..Len(conns) :
        conns[c].procs > 0 =>
            /\ conns[c].reads = 1 /\ conns[c].req \in ReqPaths
            /\ conns[c].out = IF conns[c].res.ok THEN conns[c].res.bytes
                               ELSE <<"404 Not Found", server.http_version>>
            /\ conns[c].how \in {"responded", "flush_err"} =>
                   conns[c].written = conns[c].out
            /\ conns[c].st = "Responding" \/ (conns[c].st = "Closed" /\ conns[c].writes = 1)

\* On an HTTP/2 server, one connection got the processor's response and
\* another, whose request no route matched, got the HTTP/2 404 response.
C5_Witness ==
    /\ server # NoServer /\ server.http_version = "HTTP/2"
    /\ \E c, d \in 1..Len(conns) :
         /\ conns[c].how = "responded" /\ conns[c].res.ok
         /\ conns[c].written = <<"response", "h1">>
         /\ conns[d].how = "responded" /\ ~conns[d].res.ok
         /\ conns[d].written = <<"404 Not Found", "HTTP/2">>

TransportFailures == {"tls_err", "read_err", "write_err", "flush_err"}

Failed(c) == Closed(c) /\ conns[c].how \in TransportFailures

AtMostOnce(conn) == conn.reads <= 1 /\ conn.procs <= 1 /\ conn.writes <= 1

NothingSent(conn) == conn.procs = 0 /\ conn.writes = 0 /\ conn.written = <<>>

\* The transitions the claim lists, from a to b, on a server with `ssl`.
ClaimedTransition(a, b, ssl) ==
    \/ a.st = "Accepted" /\ b.st = "TlsHandshake" /\ ssl = "Some"
    \/ a.st = "Accepted" /\ b.st = "Reading" /\ ssl = "None"
    \/ a.st = "TlsHandshake" /\ b.st = "Reading"
    \/ a.st = "Reading" /\ b.st = "Dispatched"
    \/ a.st = "Dispatched" /\ b.st = "Responding"
    \/ a.st = "Responding" /\ b.st = "Closed"
    \/ a.st = "Reading" /\ b.st = "Closed" /\ b.how = "clean" /\ NothingSent(b)

\* The transitions of a failing connection: straight to Closed from before
\* the read, with the processor not called and nothing written.
FailureTransition(a, b, ssl) ==
    \/ a.st = "Accepted" /\ b.st = "Closed" /\ b.how = "tls_err" /\ ssl = "Some"
         /\ NothingSent(b)
    \/ a.st = "TlsHandshake" /\ b.st = "Closed" /\ b.how = "tls_err" /\ NothingSent(b)
    \/ a.st = "Reading" /\ b.st = "Closed" /\ b.how = "read_err" /\ NothingSent(b)

\* C10 as claimed: a connection's state changes only along the listed
\* transitions, with at most one read, one process() call and one write.
C10_OnlyClaimedTransitions ==
    /\ [](\A c \in 1..Len(conns) : AtMostOnce(conns[c]))
    /\ [][\A c \in 1..Len(conns) :
            conns'[c].st # conns[c].st =>
                ClaimedTransition(conns[c], conns'[c], server.ssl)]_vars

\* C10 as amended: the listed transitions, or straight to Closed when the
\* TLS session, the handshake or the read fails; at most one read, one
\* process() call and one write; Closed is final.
C10_TransitionsWithFailures ==
    /\ [](\A c \in 1..Len(conns) : AtMostOnce(conns[c]))
    /\ [][\A c \in 1..Len(conns) :
            conns'[c].st # conns[c].st =>
                \/ ClaimedTransition(conns[c], conns'[c], server.ssl)
                \/ FailureTransition(conns[c], conns'[c], server.ssl)]_vars

\* On a TLS server one connection went through the handshake, one read, one
\* process() call and one write, and another was closed by a failed
\* handshake with nothing read.
C10_Witness ==
    /\ server # NoServer /\ server.ssl = "Some"
    /\ \E c, d \in 1..Len(conns) :
         /\ conns[c].how = "responded"
         /\ conns[c].reads = 1 /\ conns[c].procs = 1 /\ conns[c].writes = 1
         /\ conns[d].how = "tls_err" /\ conns[d].reads = 0

LoopPositions == {"check", "accept", "sleep"}

Ended == pc \in {"done", "panicked"}

\* C11: once the flag is cleared while the accept thread is in its loop (at
\* the flag check, in an accept, or in the would-block sleep), the thread
\* ends, whichever way the accept in flight answers (the thread being
\* scheduled).
C11_StopEndsThread ==
    (~running /\ pc \in LoopPositions) ~> Ended

\* stop() came while an accept was in flight on a server that had already
\* taken a connection; that accept brought no connection, and the thread
\* has left the loop.
C11_Witness ==
    /\ stopPc = "accept" /\ ~running /\ pc = "done"
    /\ pending = 0 /\ stopAccepted > 0 /\ Len(conns) = stopAccepted

\* C12: an accept error other than WouldBlock only sends the thread back to
\* the flag check, changing neither the flag, the backlog nor a connection;
\* after any counted number of such errors, with the flag still set, the
\* thread is still in its loop, and an accept that finds a connection in the
\* backlog can still take and dispatch it.
C12_AcceptErrorNonFatal ==
    /\ []((acceptErrs > 0 /\ running /\ pc # "panicked") =>
            /\ pc \in LoopPositions
            /\ (pc = "accept" /\ pending > 0) => ENABLED AcceptOk)
    /\ [][(pc = "accept" /\ acceptErrs' # acceptErrs) =>
            /\ pc' = "check"
            /\ running' = running /\ pending' = pending /\ conns' = conns]_vars

\* A connection that was accepted after MaxErrs accept errors has been
\* answered, the flag still set and the thread still in its loop.
C12_Witness ==
    /\ running /\ pc \in LoopPositions
    /\ \E c \in 1..Len(conns) :
         conns[c].afterErrs /\ conns[c].how = "responded"

\* C13 as claimed: while the node has no context handle and HttpServer::new
\* has not been called, whatever listen and server_name directives have run
\* (with one argument or with none), nothing has aborted and the node, the
\* children and the contexts are as the parser left them.
C13_AbsentHandleNoOp ==
    (node.current_ctx = "None" /\ buildRes = "none") =>
        /\ phase = "config"
        /\ srvCtx = NoCtx
        /\ children = parsed

\* C14: a step taken on a server node that has its context, other than
\* HttpServer::new, is a listen or server_name directive: it leaves the
\* node's handle and type tag, the children and their contexts, and the
\* context's processor, version and reference count as they were, and
\* either changes nothing, or only overwrites listen with the directive's
\* first argument, or only appends that argument to server_names.
C14_HandlersFrame ==
    [][(phase = "config" /\ node.current_ctx = "Some" /\ buildRes' = "none") =>
         /\ node' = node /\ children' = children /\ parsed' = parsed
         /\ server' = server
         /\ srvCtx'.processor = srvCtx.processor
         /\ srvCtx'.http_version = srvCtx.http_version
         /\ srvCtx'.arc = srvCtx.arc
         /\ \/ srvCtx' = srvCtx
            \/ \E a \in Addrs : srvCtx' = [srvCtx EXCEPT !.listen = a]
            \/ \E n \in ServerNames :
                 srvCtx' = [srvCtx EXCEPT !.server_names = Append(@, n)]]_vars

\* Both directives have run on the block: the address is the one given and
\* the name is listed, with the node and the empty processor untouched.
C14_Witness ==
    /\ phase = "config" /\ node.current_ctx = "Some"
    /\ node.block_type = "HttpServerContext"
    /\ srvCtx.listen = "0.0.0.0:9090"
    /\ srvCtx.server_names = <<"a.test">>
    /\ IsEmpty(srvCtx.processor)

\* C15: while the server node holds its pointer the context's count is at
\* least one and has never been lower, through handle_create_server, the
\* directives and every HttpServer::new; a build counts one more share
\* while it runs than it leaves behind; and the same floor holds for every
\* child that has a context, across the location arm.
C15_ContextStaysAlive ==
    /\ node.current_ctx = "Some" =>
          srvCtx.arc.n >= 1 /\ srvCtx.arc.low >= 1
    /\ buildRes \notin {"none", "NoCtx"} =>
          srvCtx.arc.peak = srvCtx.arc.n + 1
    /\ \A i \in 1..Len(children) :
          children[i].ctx => children[i].arc.n >= 1 /\ children[i].arc.low >= 1

\* HttpServer::new has returned twice on a node whose location child had
\* its handlers taken: the server context and the child's context are both
\* still held by one share, the node's.
C15_Witness ==
    /\ Built /\ rebuilt # NoServer /\ rebuilt.kind = "Server"
    /\ srvCtx.arc = [n |-> 1, low |-> 1, peak |-> 2]
    /\ \E i \in 1..Len(children) :
         /\ IsLocation(children[i]) /\ children[i].ctx
         /\ parsed[i].handlers # <<>> /\ children[i].handlers = <<>>
         /\ children[i].arc.n = 1

\* C16: once HttpServer::new has returned a Server, the server context's
\* processor is empty and every child's handler list is empty; a Server
\* returned by a later HttpServer::new on the same node, whether the first
\* call returned or panicked, has an empty processor, so no handler is in
\* two Servers.
C16_ConsumedOnce ==
    /\ Built =>
          /\ IsEmpty(srvCtx.processor)
          /\ \A i \in 1..Len(children) : children[i].handlers = <<>>
    /\ (rebuilt # NoServer /\ rebuilt.kind = "Server") =>
          /\ IsEmpty(rebuilt.processor)
          /\ Built => rebuilt.processor \cap server.processor = {}

\* The first Server holds the routes of two location children; the first
\* Server dropped, a second HttpServer::new returned a Server with none.
C16_Witness ==
    /\ Built /\ rebuilt # NoServer /\ rebuilt.kind = "Server"
    /\ Cardinality(server.processor) = 3
    /\ IsEmpty(rebuilt.processor)
    /\ rebuilt.listener = server.listener

\* What the build of the parsed tree puts into the Server.
AtBuild == BuildLoop(BuildAcc(parsed, NewProcessor, "None"), 1)

\* A step of stop(): it moves neither the accept thread nor a connection.
IsStopStep == pc' = pc /\ conns' = conns /\ pending' = pending /\ stopAccepted' >= 0

\* C17: on a built server the flag is true until the first stop(), changes
\* only in a step of stop() and only from true to false, and the Server's
\* route table, HTTP version and TLS configuration are in every state those
\* the build produced, however many connections have been handled.
C17_OnlyFlagChanges ==
    /\ [](stopAccepted = -1 => running)
    /\ [](/\ server.processor = AtBuild.proc
          /\ server.ssl = AtBuild.ssl
          /\ server.http_version = srvCtx.http_version)
    /\ [][/\ server' = server
          /\ running' # running => (running /\ ~running' /\ IsStopStep)
          /\ ~running => ~running']_vars

\* MaxConns connections have been answered from the route table the build
\* produced, stop() has been called and the accept thread has ended.
C17_Witness ==
    /\ Len(conns) = MaxConns
    /\ \A c \in 1..Len(conns) : conns[c].how = "responded" /\ conns[c].res.ok
    /\ ~running /\ pc = "done"
    /\ ~IsEmpty(server.processor)

\* C18: whenever an accept finds a connection in the backlog, taking and
\* dispatching it is possible at once, whatever the handlers of the
\* connections accepted before it have or have not done; and the step that
\* accepts a connection changes no earlier connection.
C18_AcceptNeverWaits ==
    /\ []((pc = "accept" /\ pending > 0) => ENABLED AcceptOk)
    /\ [][Len(conns') > Len(conns) =>
            /\ Len(conns') = Len(conns) + 1
            /\ \A c \in 1..Len(conns) : conns'[c] = conns[c]]_vars

\* The second connection has been accepted, dispatched and answered while
\* the handler of the first has not started.
C18_Witness ==
    /\ Len(conns) >= 2
    /\ conns[1].st = "Accepted" /\ conns[1].reads = 0
    /\ conns[2].how = "responded"

\* C19: after the first stop() the accept thread takes at most one more
\* connection, the one whose accept was in flight, and once the thread has
\* ended nothing more is taken.
C19_AtMostOneAfterStop ==
    /\ [](stopAccepted >= 0 =>
            /\ Len(conns) <= stopAccepted + 1
            /\ Len(conns) > stopAccepted => stopPc = "accept")
    /\ [][(~running /\ Ended) => Len(conns') = Len(conns)]_vars

\* stop() came during an accept with two clients in the backlog: the thread
\* took one of them and ended, leaving the other unaccepted.
C19_Witness ==
    /\ stopPc = "accept" /\ ~running /\ pc = "done"
    /\ Len(conns) = stopAccepted + 1
    /\ pending > 0

\* C20: when the first stop() comes before start(), the accept thread never
\* reaches an accept or the sleep and no connection is ever accepted or
\* dispatched, whatever the route table and the backlog; once started, the
\* thread ends (the thread being scheduled).
C20_StopBeforeStart ==
    /\ [](stopPc = "idle" =>
            /\ conns = <<>>
            /\ pc \in {"idle", "spawned", "check", "done", "panicked"})
    /\ (stopPc = "idle" /\ phase = "started") ~> Ended

\* stop() came before start() on a server with a route; the thread has
\* ended with a client still waiting in the backlog.
C20_Witness ==
    /\ stopPc = "idle" /\ phase = "started" /\ pc = "done"
    /\ ~IsEmpty(server.processor)
    /\ pending > 0 /\ conns = <<>>

====
